---- MODULE Spec2Model ----
(***************************************************************************)
(* Keyword Rank Tracker (src/app.py): the rank form, the rank checker loop *)
(* and get_google_rank, with the SerpApi endpoint and the ranks table as   *)
(* the environment.                                                        *)
(*                                                                         *)
(* Python strings that the program slices, trims, lower-cases or searches  *)
(* are sequences of one-character strings, so that re.sub, split, strip,   *)
(* lower, title and the `in` substring test are computed character by      *)
(* character.  Values the program only passes along (the language code,    *)
(* the literal "in") are plain strings.                                    *)
(***************************************************************************)
EXTENDS Integers, Sequences, FiniteSets, TLC

(***************************************************************************)
(* Bounds of the model.                                                    *)
(***************************************************************************)
\* longest organic_results list enumerated over all result items
MaxLinks == 2
\* most non-matching results that precede the brand's link on a long page
MaxFill == 12

(***************************************************************************)
(* Python string primitives.                                               *)
(***************************************************************************)
Range(f) == {f[k] : k \in DOMAIN f}

UpperChars == <<"A", "B", "C", "D", "E", "F", "G", "H", "I", "J", "K", "L", "M", "N", "O", "P", "Q", "R", "S", "T", "U", "V", "W", "X", "Y", "Z">>
LowerChars == <<"a", "b", "c", "d", "e", "f", "g", "h", "i", "j", "k", "l", "m", "n", "o", "p", "q", "r", "s", "t", "u", "v", "w", "x", "y", "z">>
Whitespace == {" ", "\t", "\n", "\r"}

IsUpper(c) == c \in Range(UpperChars)
IsLower(c) == c \in Range(LowerChars)
ToLower == [c \in Range(UpperChars) |-> LowerChars[CHOOSE k \in 1..26 : UpperChars[k] = c]]
ToUpper == [c \in Range(LowerChars) |-> UpperChars[CHOOSE k \in 1..26 : LowerChars[k] = c]]
LowerChar(c) == IF c \in DOMAIN ToLower THEN ToLower[c] ELSE c
UpperChar(c) == IF c \in DOMAIN ToUpper THEN ToUpper[c] ELSE c

\* str.lower()
Lower(s) == [k \in 1..Len(s) |-> LowerChar(s[k])]

\* str.title(): a cased character is upper-cased after an uncased one and
\* lower-cased after a cased one
Title(s) ==
    [k \in 1..Len(s) |->
        IF k > 1 /\ (IsUpper(s[k-1]) \/ IsLower(s[k-1]))
        THEN LowerChar(s[k]) ELSE UpperChar(s[k])]

StartsWith(s, p) == Len(s) >= Len(p) /\ SubSeq(s, 1, Len(p)) = p
Drop(s, n) == SubSeq(s, n + 1, Len(s))

\* str.strip()
RECURSIVE LStrip(_)
LStrip(s) == IF s # <<>> /\ Head(s) \in Whitespace THEN LStrip(Tail(s)) ELSE s
RECURSIVE RStrip(_)
RStrip(s) ==
    IF s # <<>> /\ s[Len(s)] \in Whitespace THEN RStrip(SubSeq(s, 1, Len(s) - 1)) ELSE s
Strip(s) == RStrip(LStrip(s))

\* str.split(sep) for a one-character separator: the list of fields
RECURSIVE Split(_, _)
Split(s, sep) ==
    IF \E k \in 1..Len(s) : s[k] = sep
    THEN LET k == CHOOSE j \in 1..Len(s) : s[j] = sep /\ \A h \in 1..(j-1) : s[h] # sep
         IN  <<SubSeq(s, 1, k - 1)>> \o Split(Drop(s, k), sep)
    ELSE <<s>>

\* `sub in s` on strings
Contains(s, sub) ==
    \E k \in 0..(Len(s) - Len(sub)) : SubSeq(s, k + 1, k + Len(sub)) = sub

\* str(i) for i >= 0
Digits == <<"0", "1", "2", "3", "4", "5", "6", "7", "8", "9">>
RECURSIVE IntToStr(_)
IntToStr(i) == IF i < 10 THEN <<Digits[i + 1]>> ELSE IntToStr(i \div 10) \o <<Digits[(i % 10) + 1]>>

\* a list comprehension's filter
RECURSIVE SelectStripped(_)
SelectStripped(lines) ==
    IF lines = <<>> THEN <<>>
    ELSE (IF Strip(Head(lines)) # <<>> THEN <<Strip(Head(lines))>> ELSE <<>>)
         \o SelectStripped(Tail(lines))


(***************************************************************************)
(* Program constants and tables.                                           *)
(***************************************************************************)
\* load_dotenv() / os.getenv("SERPAPI_KEY"): one opaque credential
SERP_API_KEY == "SERPAPI_KEY"
\* the "num" parameter of every search request
Num == 100

India == <<"I", "n", "d", "i", "a">>
AllIndia == <<"A", "l", "l", " ", "I", "n", "d", "i", "a">>
AllCities == <<"A", "l", "l", " ", "C", "i", "t", "i", "e", "s">>
Sikkim == <<"S", "i", "k", "k", "i", "m">>

\* one entry of the table, with its whole city list
INDIA_STATES_CITIES(s) == IF s = Sikkim THEN <<<<"G", "a", "n", "g", "t", "o", "k">>>> ELSE <<>>
States == {Sikkim}

\* the options of the two sidebar select boxes
Countries ==
    {India, <<"U", "n", "i", "t", "e", "d", " ", "S", "t", "a", "t", "e", "s">>, <<"U", "n", "i", "t", "e", "d", " ", "K", "i", "n", "g", "d", "o", "m">>, <<"C", "a", "n", "a", "d", "a">>, <<"A", "u", "s", "t", "r", "a", "l", "i", "a">>}
Langs == {"en", "hi", "fr", "es", "de"}
\* the languages a run of the model selects
LangChoices == {"en", "hi"}
StateOptions == {AllIndia} \cup States
CityOptions(s) == {AllCities} \cup Range(INDIA_STATES_CITIES(s))

\* Python ranks are an int or one of two strings
IntRank(n) == [tag |-> "int", val |-> n]
StrRank(s) == [tag |-> "str", val |-> s]
NoRank == [tag |-> "none", val |-> 0]
NotFound == StrRank(<<"N", "o", "t", " ", "F", "o", "u", "n", "d">>)
ApiError == StrRank(<<"A", "P", "I", " ", "E", "r", "r", "o", "r">>)
\* str(rank)
Str(rank) == IF rank.tag = "int" THEN IntToStr(rank.val) ELSE rank.val

\* dict.get(key, default) on a JSON object
Get(d, key, default) == IF key \in DOMAIN d THEN d[key] ELSE default

(***************************************************************************)
(* Sidebar: the location string of a script run.                           *)
(***************************************************************************)
Location(c, s, city_sel, custom_city) ==
    IF c = India
    THEN IF s # AllIndia
         THEN LET city == IF Strip(custom_city) # <<>>
                          THEN Title(Strip(custom_city)) ELSE city_sel
              IN  IF city # AllCities
                  THEN city \o <<",", " ">> \o s \o <<",", " ", "I", "n", "d", "i", "a">>
                  ELSE s \o <<",", " ", "I", "n", "d", "i", "a">>
         ELSE India
    ELSE c

(***************************************************************************)
(* get_google_rank.                                                        *)
(***************************************************************************)
\* a seeded bug: the request asks for one page of ten results at an offset
ParamsPaged(keyword, country_code, lang_code, loc) ==
    [engine |-> "google", q |-> keyword, hl |-> lang_code, gl |-> country_code,
     num |-> 10, start |-> 0, api_key |-> SERP_API_KEY, location |-> loc]

\* the request parameters; `if location:` adds the location
Params(keyword, country_code, lang_code, loc) ==
    IF loc # <<>>
    THEN [engine |-> "google", q |-> keyword, hl |-> lang_code, gl |-> country_code,
          num |-> Num, api_key |-> SERP_API_KEY, location |-> loc]
    ELSE [engine |-> "google", q |-> keyword, hl |-> lang_code, gl |-> country_code,
          num |-> Num, api_key |-> SERP_API_KEY]

\* re.sub(r"^https?://(www\.)?", "", brand_url)
ReSubScheme(url) ==
    LET rest == IF StartsWith(url, <<"h", "t", "t", "p", "s", ":", "/", "/">>) THEN Drop(url, 8)
                ELSE IF StartsWith(url, <<"h", "t", "t", "p", ":", "/", "/">>) THEN Drop(url, 7)
                ELSE url
    IN  IF rest # url /\ StartsWith(rest, <<"w", "w", "w", ".">>) THEN Drop(rest, 4) ELSE rest

\* re.sub(...).split("/")[0].lower()
BrandDomain(url) == Lower(Split(ReSubScheme(url), "/")[1])

\* a seeded bug: enumerate(results) without the start value 1
RECURSIVE ScanFromZero(_, _, _, _)
ScanFromZero(results, domain, i, serp_links) ==
    IF i > Len(results)
    THEN [rank |-> NotFound, serp_links |-> serp_links]
    ELSE LET link == Lower(Get(results[i], "link", <<>>))
             links == Append(serp_links, [Position |-> i - 1, URL |-> link])
         IN  IF Contains(link, domain)
             THEN [rank |-> IntRank(i - 1), serp_links |-> links]
             ELSE ScanFromZero(results, domain, i + 1, links)

\* for i, r in enumerate(results, 1): ... return i, serp_links
\* falling out of the loop: return "Not Found", serp_links
RECURSIVE Scan(_, _, _, _)
Scan(results, domain, i, serp_links) ==
    IF i > Len(results)
    THEN [rank |-> NotFound, serp_links |-> serp_links]
    ELSE LET link == Lower(Get(results[i], "link", <<>>))
             links == Append(serp_links, [Position |-> i, URL |-> link])
         IN  IF Contains(link, domain)
             THEN [rank |-> IntRank(i), serp_links |-> links]
             ELSE Scan(results, domain, i + 1, links)

\* a seeded bug: the error field is looked at only after the scan
HandleScanFirst(keyword, url, data) ==
    LET found == Scan(Get(data, "organic_results", <<>>), BrandDomain(url), 1, <<>>)
    IN  IF "error" \in DOMAIN data
        THEN [rank |-> ApiError, serp_links |-> found.serp_links,
              domain |-> <<BrandDomain(url)>>,
              warnings |-> <<[level |-> "warning", keyword |-> keyword, text |-> data.error]>>]
        ELSE [rank |-> found.rank, serp_links |-> found.serp_links,
              domain |-> <<BrandDomain(url)>>, warnings |-> <<>>]

\* the body of get_google_rank after res.json(): the error check, then the scan
Handle(keyword, url, data) ==
    IF "error" \in DOMAIN data
    THEN [rank |-> ApiError, serp_links |-> <<>>, domain |-> <<>>,
          warnings |-> <<[level |-> "warning", keyword |-> keyword, text |-> data.error]>>]
    ELSE Scan(Get(data, "organic_results", <<>>), BrandDomain(url), 1, <<>>)
         @@ [domain |-> <<BrandDomain(url)>>, warnings |-> <<>>]

\* One call.  http is what the endpoint does with the one request: exc names
\* the exception requests.get or res.json raises ("none": a JSON object, data).
\* Nothing in the function catches an exception, so it leaves the function.
get_google_rank(keyword, url, country_code, lang_code, loc, http) ==
    LET params == Params(keyword, country_code, lang_code, loc)
    IN  IF http.exc # "none"
        THEN [raised |-> TRUE, exc |-> http.exc, requests |-> <<params>>,
              rank |-> NoRank, serp_links |-> <<>>, domain |-> <<>>, warnings |-> <<>>]
        ELSE Handle(keyword, url, http.data)
             @@ [raised |-> FALSE, exc |-> "none", requests |-> <<params>>]

(***************************************************************************)
(* The ranks table.                                                        *)
(***************************************************************************)
\* INTEGER PRIMARY KEY AUTOINCREMENT
NextId(rows) == IF rows = <<>> THEN 1 ELSE rows[Len(rows)].id + 1

\* INSERT INTO ranks (...) VALUES (...); rank is stored as str(rank)
save_rank(rows, url, keyword, rank, country_code, lang_code, loc) ==
    Append(rows, [id |-> NextId(rows), brand_url |-> url, keyword |-> keyword,
                  rank |-> Str(rank), country |-> country_code, lang |-> lang_code,
                  location |-> loc])

(***************************************************************************)
(* Inputs: what the user types and what the endpoint answers.              *)
(***************************************************************************)
ExampleCom == <<"e", "x", "a", "m", "p", "l", "e", ".", "c", "o", "m">>

\* the brand URLs that differ only in scheme, www., path and letter case
ExampleUrls ==
    {<<"h", "t", "t", "p", "s", ":", "/", "/", "w", "w", "w", ".", "e", "x", "a", "m", "p", "l", "e", ".", "c", "o", "m", "/", "p", "a", "t", "h">>, <<"h", "t", "t", "p", ":", "/", "/", "e", "x", "a", "m", "p", "l", "e", ".", "c", "o", "m">>, <<"e", "x", "a", "m", "p", "l", "e", ".", "c", "o", "m">>,
     <<"w", "w", "w", ".", "e", "x", "a", "m", "p", "l", "e", ".", "c", "o", "m">>, <<"h", "t", "t", "p", "s", ":", "/", "/", "E", "x", "a", "m", "p", "l", "e", ".", "C", "O", "M">>}

BrandUrls == ExampleUrls \cup {<<>>, <<" ">>, <<"h", "t", "t", "p", "s", ":", "/", "/">>, <<"/", "x">>}

KeywordTexts == {<<>>, <<" ", "\n">>, <<"s", "e", "o">>, <<" ", "s", "e", "o", " ", "\n", "\n", "a", "i">>}

CustomCities == {<<>>, <<" ", "l", "e", "h", " ">>}

Competitor == [link |-> <<"h", "t", "t", "p", ":", "/", "/", "r", "i", "v", "a", "l", ".", "i", "o", "/">>]
BrandPage == [link |-> <<"h", "t", "t", "p", ":", "/", "/", "w", "w", "w", ".", "E", "x", "a", "m", "p", "l", "e", ".", "c", "o", "m", "/", "s">>]
NoLink == [title |-> <<"a", "d">>]
ResultItems == {Competitor, BrandPage, NoLink}

\* every organic_results list of at most MaxLinks items, and the long lists
\* that put the brand's page behind MaxFill - 1 or MaxFill other results
ShortPages == UNION {[1..n -> ResultItems] : n \in 0..MaxLinks}
LongPages == {[k \in 1..(n + 1) |-> IF k <= n THEN Competitor ELSE BrandPage] :
                 n \in (MaxFill - 1)..MaxFill}
Pages == ShortPages \cup LongPages

ErrorText == <<"I", "n", "v", "a", "l", "i", "d", " ", "A", "P", "I", " ", "k", "e", "y", ".">>
Metadata == [status |-> "Success"]

\* requests.get raises (no answer), res.json() raises (the body is not JSON),
\* or the body is a JSON object
Responses ==
    {[exc |-> "ConnectionError", data |-> [body |-> <<>>]],
     [exc |-> "JSONDecodeError", data |-> [body |-> <<"<", "h", "t", "m", "l", ">">>]]}
    \cup {[exc |-> "none", data |-> [error |-> ErrorText]],
          [exc |-> "none", data |-> [error |-> ErrorText, organic_results |-> <<BrandPage>>]],
          [exc |-> "none", data |-> [search_metadata |-> Metadata]]}
    \cup {[exc |-> "none", data |-> [search_metadata |-> Metadata, organic_results |-> p]] :
             p \in Pages}

\* a row an earlier run left in the table
OldRow ==
    [id |-> 1, brand_url |-> ExampleCom, keyword |-> <<"s", "e", "o">>, rank |-> <<"7">>,
     country |-> "in", lang |-> "en", location |-> India]

(***************************************************************************)
(* State.                                                                  *)
(***************************************************************************)
VARIABLES
    country,        \* sidebar: the selected country
    lang,           \* sidebar: the selected language
    location,       \* sidebar: the location string of this run
    brand_url,      \* form: the brand URL as typed
    keywords_text,  \* form: the keyword text area as typed
    pc,             \* "idle", "rejected", "loop", "done" or "crashed"
    keywords,       \* the stripped non-empty lines
    i,              \* keywords handled so far
    results,        \* the rows of the results table
    history,        \* the ranks table, in insertion order
    history0,       \* the ranks table when the form was submitted
    requests,       \* the requests sent to the endpoint in this run
    call,           \* the last call of get_google_rank: <<>> or <<its record>>
    ui              \* the messages shown in this run

vars == <<country, lang, location, brand_url, keywords_text, pc, keywords, i,
          results, history, history0, requests, call, ui>>

\* init_db() creates the table if it is missing and keeps the rows of one that exists
Init ==
    /\ country = India
    /\ lang = "en"
    /\ location = India
    /\ brand_url = <<>>
    /\ keywords_text = <<>>
    /\ pc = "idle"
    /\ keywords = <<>>
    /\ i = 0
    /\ results = <<>>
    /\ history \in {<<>>, <<OldRow>>}
    /\ history0 = history
    /\ requests = <<>>
    /\ call = <<>>
    /\ ui = <<>>

(***************************************************************************)
(* The rank checker.                                                       *)
(***************************************************************************)
\* a seeded bug: the country code follows the sidebar's country
SelectedCountryCode(selected) ==
    IF selected = India THEN "in"
    ELSE IF selected = <<"U", "n", "i", "t", "e", "d", " ", "S", "t", "a", "t", "e", "s">> THEN "us"
    ELSE IF selected = <<"U", "n", "i", "t", "e", "d", " ", "K", "i", "n", "g", "d", "o", "m">> THEN "uk"
    ELSE IF selected = <<"C", "a", "n", "a", "d", "a">> THEN "ca"
    ELSE "au"

\* the country argument of get_google_rank and of save_rank in the loop
LoopCountry(selected) == "in"

\* `if not brand_url or not keywords_text.strip()`
Invalid(url, text) == url = <<>> \/ Strip(text) = <<>>

\* The script run of a form submission up to the loop: the sidebar fixes
\* country, lang and location, then the form is validated.
Submit ==
    /\ pc = "idle"
    /\ \E c \in Countries, l \in LangChoices, s \in StateOptions, cu \in CustomCities,
          url \in BrandUrls, text \in KeywordTexts :
         \E city \in CityOptions(s) :
            /\ country' = c
            /\ lang' = l
            /\ location' = Location(c, s, city, cu)
            /\ brand_url' = url
            /\ keywords_text' = text
            /\ IF Invalid(url, text)
               THEN /\ pc' = "rejected"
                    /\ ui' = Append(ui, [level |-> "error",
                                         text |-> "Please enter both Brand URL and Keywords."])
                    /\ keywords' = keywords
               ELSE /\ pc' = "loop"
                    /\ ui' = Append(ui, [level |-> "info", text |-> location'])
                    /\ keywords' = SelectStripped(Split(text, "\n"))
    /\ history0' = history
    /\ UNCHANGED <<i, results, history, requests, call>>

\* One iteration of `for i, kw in enumerate(keywords)`: the call, the insert,
\* the results row.  An exception leaving get_google_rank ends the script run.
CheckKeyword ==
    /\ pc = "loop"
    /\ i < Len(keywords)
    /\ \E http \in Responses :
         LET kw == keywords[i + 1]
             code == LoopCountry(country)
         IN  \E ret \in {get_google_rank(kw, brand_url, code, lang, location, http)} :
             /\ requests' = requests \o ret.requests
             /\ call' = <<[keyword |-> kw, http |-> http, ret |-> ret]>>
             /\ ui' = ui \o ret.warnings
             /\ IF ret.raised
                THEN /\ pc' = "crashed"
                     /\ UNCHANGED <<i, results, history>>
                ELSE /\ pc' = pc
                     /\ i' = i + 1
                     /\ history' = save_rank(history, brand_url, kw, ret.rank, code,
                                             lang, location)
                     /\ results' = Append(results, [Keyword |-> kw, Rank |-> ret.rank,
                                                    Location |-> location])
    /\ UNCHANGED <<country, lang, location, brand_url, keywords_text, keywords, history0>>

\* After the loop: the success message and the results table.
Complete ==
    /\ pc = "loop"
    /\ i = Len(keywords)
    /\ pc' = "done"
    /\ ui' = Append(ui, [level |-> "success", text |-> "Rank check completed successfully!"])
    /\ UNCHANGED <<country, lang, location, brand_url, keywords_text, keywords, i,
                   results, history, history0, requests, call>>

Next == Submit \/ CheckKeyword \/ Complete

Spec == Init /\ [][Next]_vars

(***************************************************************************)
(* Vocabulary of the properties.                                           *)
(***************************************************************************)
IsInt(rank, n) == rank.tag = "int" /\ rank.val = n
IsStr(rank, r) == rank.tag = "str" /\ rank.val = r.val

\* the call got a JSON object without an error field
Answered(c) == c.http.exc = "none" /\ "error" \notin DOMAIN c.http.data
Reported(c) == c.http.exc = "none" /\ "error" \in DOMAIN c.http.data
Failed(c) == c.http.exc # "none"

OrganicResults(c) ==
    IF "organic_results" \in DOMAIN c.http.data THEN c.http.data.organic_results ELSE <<>>
LinkOf(r) == IF "link" \in DOMAIN r THEN r.link ELSE <<>>

\* the link holds the domain as a case-insensitive substring
Holds(link, domain) ==
    \E k \in 0..(Len(link) - Len(domain)) :
        \A h \in 1..Len(domain) : LowerChar(link[k + h]) = LowerChar(domain[h])

\* result n is the first one, in rank order, whose link holds the domain
FirstMatch(c, domain, n) ==
    /\ n \in 1..Len(OrganicResults(c))
    /\ Holds(LinkOf(OrganicResults(c)[n]), domain)
    /\ \A m \in 1..(n - 1) : ~Holds(LinkOf(OrganicResults(c)[m]), domain)

\* the brand URL is not blank and its domain is not empty
UsableBrand == Strip(brand_url) # <<>> /\ BrandDomain(brand_url) # <<>>
RunOver == pc \in {"done", "crashed"}
NewRows == SubSeq(history, Len(history0) + 1, Len(history))

(***************************************************************************)
(* C1                                                                      *)
(***************************************************************************)
\* C1 as stated, with pages of 10: a first match at local index i of page p,
\* that is at result n = (p-1)*10 + i, gives rank n after exactly p requests
\* (result 13 is local index 3 of page 2: two requests).
C1_FoundAfterPageFetches ==
    \A c \in Range(call) :
        (Answered(c) /\ BrandDomain(brand_url) # <<>>) =>
            \A n \in 1..Len(OrganicResults(c)) :
                FirstMatch(c, BrandDomain(brand_url), n) =>
                    /\ IsInt(c.ret.rank, n)
                    /\ Len(c.ret.requests) = ((n - 1) \div 10) + 1

\* C1 amended: with a non-empty brand domain and an answer without error, a
\* first match at result n of the one response gives rank n, the scanned list
\* has n entries and ends with that link, lower-cased, at Position n, and the
\* call sent exactly one request, for Num results and without an offset.
C1_FoundInOneRequest ==
    \A c \in Range(call) :
        (Answered(c) /\ BrandDomain(brand_url) # <<>>) =>
            \A n \in 1..Len(OrganicResults(c)) :
                FirstMatch(c, BrandDomain(brand_url), n) =>
                    /\ IsInt(c.ret.rank, n)
                    /\ Len(c.ret.serp_links) = n
                    /\ c.ret.serp_links[n].Position = n
                    /\ c.ret.serp_links[n].URL = Lower(LinkOf(OrganicResults(c)[n]))
                    /\ Len(c.ret.requests) = 1
                    /\ c.ret.requests[1].num = 100
                    /\ "start" \notin DOMAIN c.ret.requests[1]

\* the brand's page was found behind more than ten other results
C1_Witness ==
    \E c \in Range(call) :
        /\ Answered(c)
        /\ BrandDomain(brand_url) # <<>>
        /\ FirstMatch(c, BrandDomain(brand_url), MaxFill + 1)
        /\ c.ret.rank.tag = "int"

(***************************************************************************)
(* C2                                                                      *)
(***************************************************************************)
\* C2 as stated, with maxResults 100 and pageSize 10: an answer without
\* results and without error gives Not Found after exactly 10 requests, the
\* k-th asking for 10 results at offset (k-1)*10.
C2_NotFoundAfterTenFetches ==
    \A c \in Range(call) :
        (Answered(c) /\ OrganicResults(c) = <<>>) =>
            /\ IsStr(c.ret.rank, NotFound)
            /\ Len(c.ret.requests) = 10
            /\ \A k \in 1..Len(c.ret.requests) :
                   /\ c.ret.requests[k].num = 10
                   /\ "start" \in DOMAIN c.ret.requests[k]
                   /\ c.ret.requests[k].start = (k - 1) * 10

\* C2 amended: an answer without results and without error gives Not Found
\* and an empty scanned list after exactly one request, which asks for 100
\* results and carries no offset.
C2_NotFoundAfterOneRequest ==
    \A c \in Range(call) :
        (Answered(c) /\ OrganicResults(c) = <<>>) =>
            /\ IsStr(c.ret.rank, NotFound)
            /\ c.ret.serp_links = <<>>
            /\ Len(c.ret.requests) = 1
            /\ c.ret.requests[1].num = 100
            /\ "start" \notin DOMAIN c.ret.requests[1]

\* a keyword was answered without results and its row was written
C2_Witness ==
    \E c \in Range(call) :
        /\ Answered(c)
        /\ OrganicResults(c) = <<>>
        /\ NewRows # <<>>
        /\ NewRows[Len(NewRows)].rank = NotFound.val

(***************************************************************************)
(* C3                                                                      *)
(***************************************************************************)
\* C3: an answer with an error field gives API Error and an empty scanned
\* list after exactly one request, also when the answer carries results; the
\* run has sent one request per keyword handled, so nothing was retried.
C3_ErrorAfterOneRequest ==
    \A c \in Range(call) :
        Reported(c) =>
            /\ ~c.ret.raised
            /\ IsStr(c.ret.rank, ApiError)
            /\ c.ret.serp_links = <<>>
            /\ Len(c.ret.requests) = 1
            /\ Len(requests) = i
            /\ \A k \in 1..Len(requests) : requests[k].q = keywords[k]

\* an error answer that carried results was handled
C3_Witness ==
    \E c \in Range(call) :
        /\ Reported(c)
        /\ OrganicResults(c) # <<>>
        /\ i >= 1

(***************************************************************************)
(* C4                                                                      *)
(***************************************************************************)
\* C4 as stated: a brand URL whose domain is the empty string gives Not Found
\* for every answer without error.
C4_EmptyDomainNotFound ==
    \A c \in Range(call) :
        (Answered(c) /\ BrandDomain(brand_url) = <<>>) => IsStr(c.ret.rank, NotFound)

(***************************************************************************)
(* C5                                                                      *)
(***************************************************************************)
\* C5 as stated: every brand URL that differs from example.com only in its
\* scheme, its www. prefix, its path and its letter case has the brand domain
\* example.com.
C5_OneDomainForAllForms ==
    \A c \in Range(call) :
        (brand_url \in ExampleUrls /\ c.ret.domain # <<>>) => c.ret.domain[1] = ExampleCom

(***************************************************************************)
(* C6                                                                      *)
(***************************************************************************)
\* C6 as stated: once the run of a batch with a usable brand URL is over, the table holds
\* the rows it held before, unchanged, followed by one row per keyword in
\* input order.
C6_OneRowPerKeyword ==
    (RunOver /\ UsableBrand) =>
        /\ Len(history) = Len(history0) + Len(keywords)
        /\ SubSeq(history, 1, Len(history0)) = history0
        /\ \A k \in 1..Len(NewRows) : NewRows[k].keyword = keywords[k]

(***************************************************************************)
(* C7                                                                      *)
(***************************************************************************)
\* C7 as stated: a transport failure ends the call with API Error and a
\* message, and no exception leaves the call.
C7_TransportFailureIsApiError ==
    \A c \in Range(call) :
        (Failed(c) /\ UsableBrand) =>
            /\ ~c.ret.raised
            /\ IsStr(c.ret.rank, ApiError)
            /\ c.ret.warnings # <<>>

(***************************************************************************)
(* C8                                                                      *)
(***************************************************************************)
\* C8 as stated: whatever keyword failed, once the run of a batch with a
\* usable brand URL is over every keyword has been requested exactly once, in input order.
C8_BatchContinuesAfterFailure ==
    (RunOver /\ UsableBrand) =>
        /\ Len(requests) = Len(keywords)
        /\ \A k \in 1..Len(requests) : requests[k].q = keywords[k]

(***************************************************************************)
(* C9                                                                      *)
(***************************************************************************)
\* C9 as stated: a submission whose brand URL is empty after trimming, or
\* whose keyword text has no non-empty line after trimming, is rejected with
\* a message, sends no request and writes no row.
C9_BlankInputRejected ==
    (pc # "idle" /\ (Strip(brand_url) = <<>>
                     \/ SelectStripped(Split(keywords_text, "\n")) = <<>>)) =>
        /\ pc = "rejected"
        /\ requests = <<>>
        /\ history = history0
        /\ \E k \in 1..Len(ui) : ui[k].level = "error"

(***************************************************************************)
(* C10                                                                     *)
(***************************************************************************)
\* C10: every request of a run carries gl = "in" and every row the run wrote
\* carries country "in", whichever country the sidebar selects; the request
\* and the row carry the run's location, which for a country other than
\* India is the country's name.
C10_CountryCodeAlwaysIn ==
    /\ \A k \in 1..Len(requests) :
           /\ requests[k].gl = "in"
           /\ "location" \in DOMAIN requests[k]
           /\ requests[k].location = location
    /\ \A k \in 1..Len(NewRows) :
           /\ NewRows[k].country = "in"
           /\ NewRows[k].location = location
    /\ (pc # "idle" /\ country # India) => location = country

\* a run for a country other than India sent a request and wrote a row
C10_Witness ==
    /\ country # India
    /\ requests # <<>>
    /\ NewRows # <<>>
====
